---- MODULE Spec2Model ----
(***************************************************************************)
(* Consciousness Work API: the FastAPI handlers of main.py, the pydantic   *)
(* schemas of schemas.py, and the document store adapter (database.py,     *)
(* modelled from its contract in spec.md section 4.1).                     *)
(***************************************************************************)
EXTENDS Integers, Sequences, FiniteSets, TLC

VARIABLES
    db,            \* database.db: "None" when the store is unconfigured, else "Database"
    databaseBool,  \* what bool(db) does on a Database object in this build
    store,         \* the documents of each collection, in insertion order
    nextId,        \* the store's identifier generator
    loaded,        \* how many documents the store held when the process started
    req,           \* the last request
    resp,          \* the response to it
    calls          \* the adapter and driver calls the handler made for it

vars == <<db, databaseBool, store, nextId, loaded, req, resp, calls>>

(***************************************************************************)
(* Bounds of the model.                                                    *)
(***************************************************************************)
\* Documents created during a run, over the three collections.
MaxDocs == 2

(***************************************************************************)
(* Python values: every value carries its type, as isinstance sees it.     *)
(***************************************************************************)
PyNone == [type |-> "NoneType", val |-> "None"]

PyStr(s) == [type |-> "str", val |-> s]

PyInt(n) == [type |-> "int", val |-> n]

PyBool(b) == [type |-> "bool", val |-> b]

PyList(xs) == [type |-> "list", val |-> xs]

\* A datetime: its naive rendering and its utc offset ("" when naive).
PyDatetime(naive, offset) == [type |-> "datetime", val |-> [naive |-> naive, offset |-> offset]]

\* The store's native identifier.
ObjectId(n) == [type |-> "ObjectId", val |-> n]

\* str(v), for the values str() is applied to.
PyStrOf(v) ==
    CASE v.type = "ObjectId" -> PyStr("oid" \o ToString(v.val))
      [] v.type = "int" -> PyStr(ToString(v.val))
      [] OTHER -> v

\* datetime.isoformat(): the naive rendering followed by the utc offset.
isoformat(v) == PyStr(v.val.naive \o v.val.offset)

\* A string of n characters.
RECURSIVE Chars(_)
Chars(n) ==
    IF n = 0 THEN ""
    ELSE IF n % 2 = 0 THEN LET half == Chars(n \div 2) IN half \o half
    ELSE "a" \o Chars(n - 1)

(***************************************************************************)
(* Dictionaries: functions from keys to Python values.                     *)
(***************************************************************************)
EmptyDict == [k \in {} |-> PyNone]

DictSet(d, k, v) == [x \in (DOMAIN d) \cup {k} |-> IF x = k THEN v ELSE d[x]]

DictPop(d, k) == [x \in (DOMAIN d) \ {k} |-> d[x]]

(***************************************************************************)
(* schemas.py: the three pydantic models.  A field is                      *)
(*   name, type, required, nullable (Optional[...]), default,              *)
(*   lengths (min_length..max_length), range (ge..le).                     *)
(***************************************************************************)
Intention ==
    << [name |-> "title", type |-> "str", required |-> TRUE, nullable |-> FALSE,
        default |-> PyNone, lengths |-> 2..140, range |-> Int],
       [name |-> "why", type |-> "str", required |-> FALSE, nullable |-> TRUE,
        default |-> PyNone, lengths |-> 0..500, range |-> Int],
       [name |-> "category", type |-> "str", required |-> FALSE, nullable |-> TRUE,
        default |-> PyNone, lengths |-> Nat, range |-> Int],
       [name |-> "target_date", type |-> "datetime", required |-> FALSE, nullable |-> TRUE,
        default |-> PyNone, lengths |-> Nat, range |-> Int],
       [name |-> "is_active", type |-> "bool", required |-> FALSE, nullable |-> FALSE,
        default |-> PyBool(TRUE), lengths |-> Nat, range |-> Int] >>

Affirmation ==
    << [name |-> "text", type |-> "str", required |-> TRUE, nullable |-> FALSE,
        default |-> PyNone, lengths |-> 2..200, range |-> Int],
       [name |-> "tags", type |-> "list[str]", required |-> FALSE, nullable |-> TRUE,
        default |-> PyList(<<>>), lengths |-> Nat, range |-> Int],
       [name |-> "intensity", type |-> "int", required |-> FALSE, nullable |-> TRUE,
        default |-> PyInt(3), lengths |-> Nat, range |-> 1..5] >>

\* Mutant: minutes with ge=0.
SessionMinutes_ge0 == 0..240

\* minutes: ge=1, le=240
SessionMinutes == 1..240

Session ==
    << [name |-> "intention_id", type |-> "str", required |-> FALSE, nullable |-> TRUE,
        default |-> PyNone, lengths |-> Nat, range |-> Int],
       [name |-> "practice_type", type |-> "str", required |-> FALSE, nullable |-> FALSE,
        default |-> PyStr("visualization"), lengths |-> Nat, range |-> Int],
       [name |-> "minutes", type |-> "int", required |-> TRUE, nullable |-> FALSE,
        default |-> PyNone, lengths |-> Nat, range |-> SessionMinutes],
       [name |-> "mood_before", type |-> "int", required |-> FALSE, nullable |-> TRUE,
        default |-> PyNone, lengths |-> Nat, range |-> 1..5],
       [name |-> "mood_after", type |-> "int", required |-> FALSE, nullable |-> TRUE,
        default |-> PyNone, lengths |-> Nat, range |-> 1..5],
       [name |-> "notes", type |-> "str", required |-> FALSE, nullable |-> TRUE,
        default |-> PyNone, lengths |-> 0..1000, range |-> Int] >>

(***************************************************************************)
(* Validation of a JSON body against a model, as pydantic does it.         *)
(***************************************************************************)
\* The JSON renderings of a timestamp the model reads, and the datetime each
\* parses to; any other string is no timestamp.
DatetimeFormats ==
    ("2030-01-01T00:00:00" :> PyDatetime("2030-01-01T00:00:00", "")) @@
    ("2030-01-01T00:00:00Z" :> PyDatetime("2030-01-01T00:00:00", "+00:00"))

TypeOk(f, v) ==
    CASE f.type = "str" -> v.type = "str"
      [] f.type = "int" -> v.type = "int"
      [] f.type = "bool" -> v.type = "bool"
      [] f.type = "list[str]" ->
            v.type = "list" /\ \A i \in 1..Len(v.val) : v.val[i].type = "str"
      [] f.type = "datetime" -> v.type = "str" /\ v.val \in DOMAIN DatetimeFormats

ConstraintOk(f, v) ==
    CASE f.type = "str" -> Len(v.val) \in f.lengths
      [] f.type = "int" -> v.val \in f.range
      [] OTHER -> TRUE

\* The field is in error: missing and required, null and not Optional, of the
\* wrong type, or out of its bounds.
FieldError(f, body) ==
    IF f.name \notin DOMAIN body THEN f.required
    ELSE IF body[f.name].type = "NoneType" THEN ~f.nullable
    ELSE ~TypeOk(f, body[f.name]) \/ ~ConstraintOk(f, body[f.name])

\* The fields a 422 response cites.
Errors(schema, body) ==
    {schema[i].name : i \in {j \in 1..Len(schema) : FieldError(schema[j], body)}}

\* The value of a valid field: its default when omitted, the parsed datetime
\* for a timestamp, the value itself otherwise.
FieldValue(f, body) ==
    IF f.name \notin DOMAIN body THEN f.default
    ELSE IF body[f.name].type = "NoneType" THEN PyNone
    ELSE IF f.type = "datetime" THEN DatetimeFormats[body[f.name].val]
    ELSE body[f.name]

\* The validated record: every field of the model, extra keys dropped.
Validated(schema, body) ==
    [n \in {schema[i].name : i \in 1..Len(schema)} |->
        FieldValue(schema[CHOOSE i \in 1..Len(schema) : schema[i].name = n], body)]

(***************************************************************************)
(* main.py: _serialize.  The argument and the dict the function works on   *)
(* are two cells; SerializeTarget is the cell the name d is bound to.      *)
(***************************************************************************)
\* Mutant: d = doc, the argument itself.
SerializeTarget_alias == "arg"

\* d = dict(doc): d is a new dict, not the argument.
SerializeTarget == "d"

\* The cells after the call: "arg" is the caller's document, "ret" the value returned.
SerializeRun(doc) ==
    IF doc = EmptyDict THEN [arg |-> doc, ret |-> doc]
    ELSE
      LET h0 == [arg |-> doc, d |-> doc]
          h1 == IF "_id" \in DOMAIN h0[SerializeTarget]
                THEN [h0 EXCEPT ![SerializeTarget] =
                        DictSet(DictPop(@, "_id"), "id", PyStrOf(@["_id"]))]
                ELSE h0
          h2 == [h1 EXCEPT ![SerializeTarget] =
                    [k \in DOMAIN @ |-> IF @[k].type = "datetime" THEN isoformat(@[k]) ELSE @[k]]]
      IN  [arg |-> h2.arg, ret |-> h2[SerializeTarget]]

_serialize(doc) == SerializeRun(doc).ret

SerializeAll(docs) == [i \in 1..Len(docs) |-> _serialize(docs[i])]

(***************************************************************************)
(* The document store adapter (spec.md 4.1).                               *)
(***************************************************************************)
Collections == {"intention", "affirmation", "session"}

TotalDocs(st) == Len(st["intention"]) + Len(st["affirmation"]) + Len(st["session"])

\* A "contains" predicate of a filter.
In(values) == [type |-> "$in", val |-> values]

\* The document satisfies every entry of the filter: equality, or for $in
\* the field equals, or is a list containing, one of the values.
Matches(doc, filter) ==
    \A k \in DOMAIN filter :
        /\ k \in DOMAIN doc
        /\ IF filter[k].type = "$in"
           THEN \E j \in 1..Len(filter[k].val) :
                    \/ doc[k] = filter[k].val[j]
                    \/ /\ doc[k].type = "list"
                       /\ \E i \in 1..Len(doc[k].val) : doc[k].val[i] = filter[k].val[j]
           ELSE doc[k] = filter[k]

Find(st, coll, filter) ==
    LET Test(d) == Matches(d, filter) IN SelectSeq(st[coll], Test)

Take(s, n) == SubSeq(s, 1, IF n < Len(s) THEN n ELSE Len(s))

\* The store answers: it is configured and reachable for this request.
Available(up) == db # "None" /\ up

PersistenceError(up) ==
    IF db = "None" THEN "Database not available" ELSE "store unreachable"

\* createDocument: the payload persisted as a new record under a fresh identifier.
create_document(st, coll, data, oid) ==
    [st EXCEPT ![coll] = Append(@, DictSet(data, "_id", oid))]

\* getDocuments: up to limit matching records in the store's order; an empty
\* sequence in degraded mode; PersistenceError when the store is unreachable.
get_documents(st, coll, filter, limit, up) ==
    IF db = "None" THEN [raised |-> FALSE, docs |-> <<>>]
    ELSE IF ~up THEN [raised |-> TRUE, docs |-> <<>>]
    ELSE [raised |-> FALSE, docs |-> Take(Find(st, coll, filter), limit)]

\* countDocuments: the number of matching records.
count_documents(st, coll, filter) == Len(Find(st, coll, filter))

(***************************************************************************)
(* Requests and responses.                                                 *)
(***************************************************************************)
Request(route, body, query, up) ==
    [route |-> route, body |-> body, query |-> query, up |-> up]

ZeroCounts == [intentions |-> 0, affirmations |-> 0, sessions |-> 0]

Response(status, id, docs, counts, detail, errors) ==
    [status |-> status, id |-> id, docs |-> docs, counts |-> counts,
     detail |-> detail, errors |-> errors]

NoResponse == Response(0, "", <<>>, ZeroCounts, "", {})

\* 200 {"id": inserted_id}
Created(id) == Response(200, id, <<>>, ZeroCounts, "", {})

\* 200 [serialized records]
Listed(docs) == Response(200, "", docs, ZeroCounts, "", {})

\* 200 {"counts": ..., "recent_sessions": ...}
Summarized(counts, recent) == Response(200, "", recent, counts, "", {})

\* raise HTTPException(status_code=500, detail=str(e))
HTTPException(detail) == Response(500, "", <<>>, ZeroCounts, detail, {})

\* FastAPI's answer to a body or query that fails validation: the fields in error.
RequestValidationError(fields) == Response(422, "", <<>>, ZeroCounts, "", fields)

\* What a handler leaves behind: the response, the store, the adapter calls made.
Outcome(r, st, id, cs) == [resp |-> r, store |-> st, nextId |-> id, calls |-> cs]

(***************************************************************************)
(* main.py: the POST handlers.                                             *)
(***************************************************************************)
\* payload: <Model> is validated before the handler runs; the handler
\* persists it and returns its id, or turns the exception into a 500.
Create(schema, coll, body, up) ==
    IF Errors(schema, body) # {}
    THEN Outcome(RequestValidationError(Errors(schema, body)), store, nextId, <<>>)
    ELSE IF ~Available(up)
    THEN Outcome(HTTPException(PersistenceError(up)), store, nextId, <<"create_document">>)
    ELSE Outcome(Created(PyStrOf(ObjectId(nextId)).val),
                 create_document(store, coll, Validated(schema, body), ObjectId(nextId)),
                 nextId + 1, <<"create_document">>)

create_intention(body, up) == Create(Intention, "intention", body, up)

\* Mutant: the exception's message is replaced by a fixed text.
create_affirmation_generic(body, up) ==
    LET out == Create(Affirmation, "affirmation", body, up)
    IN  IF out.resp.status = 500
        THEN [out EXCEPT !.resp = HTTPException("Internal Server Error")]
        ELSE out

create_affirmation(body, up) == Create(Affirmation, "affirmation", body, up)

\* Mutant: the session is filed in the intention collection.
create_session_misfiled(body, up) == Create(Session, "intention", body, up)

create_session(body, up) == Create(Session, "session", body, up)

(***************************************************************************)
(* main.py: the GET handlers.                                              *)
(***************************************************************************)
\* limit: int = Query(default, ge=.., le=..)
IntentionsLimit == [default |-> 100, ge |-> 1, le |-> 500]

AffirmationsLimit == [default |-> 200, ge |-> 1, le |-> 1000]

SessionsLimit == [default |-> 50, ge |-> 1, le |-> 500]

\* Mutant: Query(default, ge=..) without le.
LimitError_no_le(q, query) ==
    /\ "limit" \in DOMAIN query
    /\ \/ query["limit"].type # "int"
       \/ query["limit"].val < q.ge

LimitError(q, query) ==
    /\ "limit" \in DOMAIN query
    /\ \/ query["limit"].type # "int"
       \/ query["limit"].val < q.ge
       \/ query["limit"].val > q.le

LimitValue(q, query) ==
    IF "limit" \in DOMAIN query THEN query["limit"].val ELSE q.default

\* The common tail of the list handlers: read, serialize, or answer 500.
List(coll, filter, limit, up) ==
    LET got == get_documents(store, coll, filter, limit, up)
    IN  IF got.raised
        THEN Outcome(HTTPException(PersistenceError(up)), store, nextId, <<"get_documents">>)
        ELSE Outcome(Listed(SerializeAll(got.docs)), store, nextId, <<"get_documents">>)

\* Mutant: without active, only active intentions are listed.
ActiveFilter_default_true(query) ==
    IF "active" \in DOMAIN query /\ query["active"] # PyNone
    THEN "is_active" :> query["active"]
    ELSE "is_active" :> PyBool(TRUE)

\* if active is not None: filter_dict["is_active"] = active
ActiveFilter(query) ==
    IF "active" \in DOMAIN query /\ query["active"] # PyNone
    THEN "is_active" :> query["active"]
    ELSE EmptyDict

list_intentions(query, up) ==
    IF LimitError(IntentionsLimit, query)
    THEN Outcome(RequestValidationError({"limit"}), store, nextId, <<>>)
    ELSE List("intention", ActiveFilter(query), LimitValue(IntentionsLimit, query), up)

\* Mutant: the tag is compared with the whole tags field.
TagFilter_equality(query) ==
    IF "tag" \in DOMAIN query /\ query["tag"] # PyNone /\ query["tag"].val # ""
    THEN "tags" :> query["tag"]
    ELSE EmptyDict

\* if tag: filter_dict["tags"] = {"$in": [tag]}
TagFilter(query) ==
    IF "tag" \in DOMAIN query /\ query["tag"] # PyNone /\ query["tag"].val # ""
    THEN "tags" :> In(<<query["tag"]>>)
    ELSE EmptyDict

list_affirmations(query, up) ==
    IF LimitError(AffirmationsLimit, query)
    THEN Outcome(RequestValidationError({"limit"}), store, nextId, <<>>)
    ELSE List("affirmation", TagFilter(query), LimitValue(AffirmationsLimit, query), up)

list_sessions(query, up) ==
    IF LimitError(SessionsLimit, query)
    THEN Outcome(RequestValidationError({"limit"}), store, nextId, <<>>)
    ELSE List("session", EmptyDict, LimitValue(SessionsLimit, query), up)

\* The sessions the summary fetches: get_documents("session", {}, 10).
RecentSessions == 10

\* bool(db), as "... if db else ..." evaluates it: None is false; a Database
\* object is true or raises NotImplementedError, as the driver's version has it.
DbTruth ==
    IF db = "None" THEN "False"
    ELSE IF databaseBool = "True" THEN "True"
    ELSE "NotImplementedError"

\* Mutant: the collections are read without the "if db" guard.
summary_unguarded(up) ==
    IF db = "None"
    THEN Outcome(HTTPException("'NoneType' object is not subscriptable"), store, nextId, <<>>)
    ELSE Outcome(Summarized([intentions |-> count_documents(store, "intention", EmptyDict),
                             affirmations |-> count_documents(store, "affirmation", EmptyDict),
                             sessions |-> count_documents(store, "session", EmptyDict)],
                            SerializeAll(get_documents(store, "session", EmptyDict,
                                                       RecentSessions, up).docs)),
                 store, nextId,
                 <<"count_documents", "count_documents", "count_documents", "get_documents">>)

summary(up) ==
    CASE DbTruth = "False" ->
            Outcome(Summarized(ZeroCounts, <<>>), store, nextId, <<>>)
      [] DbTruth = "NotImplementedError" ->
            Outcome(HTTPException("Database objects do not implement truth value testing or bool()"),
                    store, nextId, <<>>)
      [] DbTruth = "True" /\ ~up ->
            Outcome(HTTPException(PersistenceError(up)), store, nextId, <<"count_documents">>)
      [] OTHER ->
            Outcome(Summarized([intentions |-> count_documents(store, "intention", EmptyDict),
                                affirmations |-> count_documents(store, "affirmation", EmptyDict),
                                sessions |-> count_documents(store, "session", EmptyDict)],
                               SerializeAll(get_documents(store, "session", EmptyDict,
                                                          RecentSessions, up).docs)),
                    store, nextId,
                    <<"count_documents", "count_documents", "count_documents", "get_documents">>)

(***************************************************************************)
(* The requests clients send.                                              *)
(***************************************************************************)
IntentionBodies ==
    { "title" :> PyStr("Run a marathon"),
      ("title" :> PyStr("Learn piano")) @@ ("why" :> PyStr("joy")) @@
          ("category" :> PyStr("music")) @@ ("target_date" :> PyStr("2030-01-01T00:00:00")) @@
          ("is_active" :> PyBool(FALSE)),
      ("title" :> PyStr("Learn piano")) @@ ("target_date" :> PyStr("2030-01-01T00:00:00Z")) @@
          ("is_active" :> PyBool(TRUE)),
      ("title" :> PyStr("Learn piano")) @@ ("target_date" :> PyStr("someday")),
      ("title" :> PyStr("x")) @@ ("why" :> PyStr(Chars(501))),
      "title" :> PyStr(Chars(141)),
      "why" :> PyStr("joy") }

AffirmationBodies ==
    { "text" :> PyStr(Chars(200)),
      ("text" :> PyStr("I attract abundance")) @@
          ("tags" :> PyList(<<PyStr("money"), PyStr("love")>>)) @@ ("intensity" :> PyInt(5)),
      ("text" :> PyStr("ok")) @@ ("tags" :> PyNone) @@ ("intensity" :> PyNone),
      "text" :> PyStr("I"),
      "text" :> PyStr(Chars(201)),
      ("text" :> PyStr("I am calm")) @@ ("intensity" :> PyInt(0)),
      ("text" :> PyStr("I am calm")) @@ ("intensity" :> PyInt(6)),
      ("text" :> PyStr("I am calm")) @@ ("tags" :> PyStr("money")),
      "tags" :> PyList(<<PyStr("money")>>) }

\* The values of minutes tried, around both ends of its range.
MinutesTried == {0, 1, 240, 241}

SessionBodies ==
    { "minutes" :> PyInt(m) : m \in MinutesTried } \cup
    { ("minutes" :> PyInt(30)) @@ ("intention_id" :> PyStr("oid1")) @@
          ("practice_type" :> PyStr("breathwork")) @@ ("mood_before" :> PyInt(2)) @@
          ("mood_after" :> PyInt(5)) @@ ("notes" :> PyStr("vivid")),
      ("minutes" :> PyInt(30)) @@ ("mood_after" :> PyInt(6)),
      "minutes" :> PyStr("ten"),
      "minutes" :> PyNone,
      "practice_type" :> PyStr("breathwork") }

\* The values of limit tried at an endpoint: both ends of its range, one
\* beyond each, and one the store can outgrow.
LimitsTried(q) == {q.ge - 1, q.ge, q.ge + 1, q.le, q.le + 1}

IntentionQueries ==
    {EmptyDict, "active" :> PyBool(TRUE), "active" :> PyBool(FALSE),
     ("active" :> PyBool(TRUE)) @@ ("limit" :> PyInt(1))}
    \cup {"limit" :> PyInt(n) : n \in LimitsTried(IntentionsLimit)}

AffirmationQueries ==
    {EmptyDict, "tag" :> PyStr(""), "tag" :> PyStr("money"), "tag" :> PyStr("career"),
     ("tag" :> PyStr("money")) @@ ("limit" :> PyInt(1))}
    \cup {"limit" :> PyInt(n) : n \in LimitsTried(AffirmationsLimit)}

SessionQueries ==
    {EmptyDict} \cup {"limit" :> PyInt(n) : n \in LimitsTried(SessionsLimit)}

(***************************************************************************)
(* The system: one action per endpoint.                                    *)
(***************************************************************************)
EmptyStore == [c \in Collections |-> <<>>]

Startup == Request("startup", EmptyDict, EmptyDict, TRUE)

Init ==
    /\ db \in {"None", "Database"}
    /\ databaseBool \in {"True", "NotImplementedError"}
    /\ store = EmptyStore
    /\ nextId = 1
    /\ loaded = 0
    /\ req = Startup
    /\ resp = NoResponse
    /\ calls = <<>>

\* The request is served: its outcome becomes the state.  The store is down
\* for a request only when it is configured and the handler reaches it.
Serve(route, body, query, up, out) ==
    /\ ~up => (db # "None" /\ out.calls # <<>>)
    /\ req' = Request(route, body, query, up)
    /\ resp' = out.resp
    /\ store' = out.store
    /\ nextId' = out.nextId
    /\ calls' = out.calls
    /\ UNCHANGED <<db, databaseBool, loaded>>

\* The model creates at most MaxDocs documents in a run.
Room == TotalDocs(store) < loaded + MaxDocs

PostIntention ==
    /\ Room
    /\ \E body \in IntentionBodies, up \in BOOLEAN :
          Serve("POST /api/intentions", body, EmptyDict, up, create_intention(body, up))

GetIntentions ==
    \E query \in IntentionQueries, up \in BOOLEAN :
        Serve("GET /api/intentions", EmptyDict, query, up, list_intentions(query, up))

PostAffirmation ==
    /\ Room
    /\ \E body \in AffirmationBodies, up \in BOOLEAN :
          Serve("POST /api/affirmations", body, EmptyDict, up, create_affirmation(body, up))

GetAffirmations ==
    \E query \in AffirmationQueries, up \in BOOLEAN :
        Serve("GET /api/affirmations", EmptyDict, query, up, list_affirmations(query, up))

PostSession ==
    /\ Room
    /\ \E body \in SessionBodies, up \in BOOLEAN :
          Serve("POST /api/sessions", body, EmptyDict, up, create_session(body, up))

GetSessions ==
    \E query \in SessionQueries, up \in BOOLEAN :
        Serve("GET /api/sessions", EmptyDict, query, up, list_sessions(query, up))

GetSummary ==
    \E up \in BOOLEAN :
        Serve("GET /api/summary", EmptyDict, EmptyDict, up, summary(up))

Next ==
    \/ PostIntention
    \/ GetIntentions
    \/ PostAffirmation
    \/ GetAffirmations
    \/ PostSession
    \/ GetSessions
    \/ GetSummary

Spec == Init /\ [][Next]_vars

(***************************************************************************)
(* The store outlives the process: a run may start on a store that already *)
(* holds documents.  Here the intention collection holds one document less *)
(* than the default limit of GET /api/intentions, or none.                 *)
(***************************************************************************)
LoadedIntentions(n) ==
    [i \in 1..n |->
        DictSet(Validated(Intention, "title" :> PyStr("Run a marathon")), "_id", ObjectId(i))]

InitLoaded ==
    /\ db = "Database"
    /\ databaseBool \in {"True", "NotImplementedError"}
    /\ loaded \in {0, IntentionsLimit.default - 1}
    /\ store = [EmptyStore EXCEPT !["intention"] = LoadedIntentions(loaded)]
    /\ nextId = loaded + 1
    /\ req = Startup
    /\ resp = NoResponse
    /\ calls = <<>>

NextLoaded ==
    \/ PostIntention
    \/ GetIntentions

SpecLoaded == InitLoaded /\ [][NextLoaded]_vars

(***************************************************************************)
(* Properties.                                                             *)
(***************************************************************************)
PostRoutes == {"POST /api/intentions", "POST /api/affirmations", "POST /api/sessions"}

ListRoutes == {"GET /api/intentions", "GET /api/affirmations", "GET /api/sessions"}

\* The string identifier a client sees for a stored document.
ClientId(d) == PyStr("oid" \o ToString(d["_id"].val))

\* The positions of a list response whose record has the given id.
WithId(docs, id) == {i \in 1..Len(docs) : docs[i]["id"] = PyStr(id)}

Given(body, k, default) == IF k \in DOMAIN body THEN body[k] ELSE default

\* The record a client expects for a submitted intention: what it sent, null
\* for what it left out, is_active true when omitted, and the id.
C1_Submitted(body, id) ==
    ("title" :> body["title"]) @@ ("why" :> Given(body, "why", PyNone)) @@
    ("category" :> Given(body, "category", PyNone)) @@
    ("target_date" :> Given(body, "target_date", PyNone)) @@
    ("is_active" :> Given(body, "is_active", PyBool(TRUE))) @@ ("id" :> PyStr(id))

\* ISO-8601 as Python renders it: a trailing Z comes back as +00:00.
C1_Rendering ==
    ("2030-01-01T00:00:00" :> "2030-01-01T00:00:00") @@
    ("2030-01-01T00:00:00Z" :> "2030-01-01T00:00:00+00:00")

\* The same record with target_date in the form the API returns it.
C1_Rendered(body, id) ==
    [C1_Submitted(body, id) EXCEPT !["target_date"] =
        IF @ = PyNone THEN @ ELSE PyStr(C1_Rendering[@.val])]

\* A successful POST /api/intentions answered, then an unfiltered
\* default-limit GET /api/intentions answered 200.
C1_Case ==
    /\ req.route = "POST /api/intentions"
    /\ resp.status = 200
    /\ req'.route = "GET /api/intentions"
    /\ req'.query = EmptyDict
    /\ resp'.status = 200

\* C1 as stated: for every valid Intention payload and every reachable store
\* state, a successful POST /api/intentions followed by an unfiltered
\* default-limit GET /api/intentions returns a list with exactly one record
\* carrying the POST's non-empty id, whose fields equal the submitted payload
\* (is_active true when omitted).
C1_AsStated ==
    [][C1_Case =>
        /\ resp.id # ""
        /\ Cardinality(WithId(resp'.docs, resp.id)) = 1
        /\ \A i \in WithId(resp'.docs, resp.id) :
              resp'.docs[i] = C1_Submitted(req.body, resp.id)]_vars

\* C1 amended: the same, when the collection held fewer than 100 intentions
\* before the POST (the default limit keeps the first 100), and with
\* target_date returned in Python's isoformat() rendering of the submitted
\* timestamp rather than as the submitted string.
C1_CreateThenList ==
    [][(C1_Case /\ Len(store["intention"]) <= 100) =>
        /\ resp.id # ""
        /\ Cardinality(WithId(resp'.docs, resp.id)) = 1
        /\ \A i \in WithId(resp'.docs, resp.id) :
              resp'.docs[i] = C1_Rendered(req.body, resp.id)]_vars

\* The unfiltered default-limit list is served from a collection filled to
\* the limit, and holds the latest intention, its Z timestamp rendered +00:00.
C1_Witness ==
    /\ req.route = "GET /api/intentions"
    /\ req.query = EmptyDict
    /\ resp.status = 200
    /\ Len(store["intention"]) = 100
    /\ nextId > loaded + 1
    /\ \E i \in WithId(resp.docs, "oid" \o ToString(nextId - 1)) :
          resp.docs[i]["target_date"] = PyStr("2030-01-01T00:00:00+00:00")

UniqueIds(st) ==
    \A c \in Collections : \A i, j \in 1..Len(st[c]) :
        i # j => st[c][i]["_id"] # st[c][j]["_id"]

OwnCollection ==
    ("POST /api/intentions" :> "intention") @@ ("POST /api/affirmations" :> "affirmation") @@
    ("POST /api/sessions" :> "session")

\* The step appends one document, with the id the response returns and that
\* no document of the collection carried, to the collection of the route.
C2_Appends(c) ==
    /\ Len(store'[c]) = Len(store[c]) + 1
    /\ SubSeq(store'[c], 1, Len(store[c])) = store[c]
    /\ ClientId(store'[c][Len(store'[c])]).val = resp'.id
    /\ \A i \in 1..Len(store[c]) : store[c][i]["_id"] # store'[c][Len(store'[c])]["_id"]
    /\ \A o \in Collections \ {c} : store'[o] = store[o]

\* C2: within each collection no two persisted records share an identifier,
\* and the store is append-only: the only change any request makes is a
\* successful POST adding exactly one record with a fresh identifier to its
\* own collection; nothing is removed or altered, and GET leaves the store
\* unchanged.
C2_AppendOnly ==
    /\ UniqueIds(store)
    /\ [][/\ UniqueIds(store')
          /\ (req'.route \in PostRoutes /\ resp'.status = 200) => C2_Appends(OwnCollection[req'.route])
          /\ ~(req'.route \in PostRoutes /\ resp'.status = 200) => store' = store]_vars

\* A second session has been persisted.
C2_Witness ==
    /\ req.route = "POST /api/sessions"
    /\ resp.status = 200
    /\ Len(store["session"]) = 2

HasTag(d, t) ==
    /\ d["tags"].type = "list"
    /\ \E i \in 1..Len(d["tags"].val) : d["tags"].val[i] = PyStr(t)

\* The client ids of the stored affirmations tagged t, in store order.
C3_Tagged(t) ==
    LET Test(d) == HasTag(d, t)
        hit == SelectSeq(store["affirmation"], Test)
    IN  [i \in 1..Len(hit) |-> ClientId(hit[i])]

C3_All == [i \in 1..Len(store["affirmation"]) |-> ClientId(store["affirmation"][i])]

C3_Returned == [i \in 1..Len(resp.docs) |-> resp.docs[i]["id"]]

C3_Limit == IF "limit" \in DOMAIN req.query THEN req.query["limit"].val ELSE 200

\* GET /api/affirmations answered 200 by an available store.
C3_Case ==
    /\ req.route = "GET /api/affirmations"
    /\ db = "Database"
    /\ req.up
    /\ resp.status = 200

\* C3 as stated: for every tag string t supplied (store available, fewer
\* matches than the limit) the response holds exactly the stored affirmations
\* whose tags list contains t; with no tag every affirmation is eligible.
C3_AsStated ==
    C3_Case =>
        IF "tag" \in DOMAIN req.query
        THEN Len(C3_Tagged(req.query["tag"].val)) < C3_Limit
                => C3_Returned = C3_Tagged(req.query["tag"].val)
        ELSE Len(C3_All) < C3_Limit => C3_Returned = C3_All

\* C3 amended: for every non-empty tag string t supplied the response holds
\* exactly the stored affirmations whose tags list contains t; with no tag,
\* or with the empty string as tag, every affirmation is eligible.
C3_TagFilter ==
    C3_Case =>
        IF "tag" \in DOMAIN req.query /\ req.query["tag"].val # ""
        THEN Len(C3_Tagged(req.query["tag"].val)) < C3_Limit
                => C3_Returned = C3_Tagged(req.query["tag"].val)
        ELSE Len(C3_All) < C3_Limit => C3_Returned = C3_All

\* tag=money returned the affirmation tagged money and left another out.
C3_Witness ==
    /\ C3_Case
    /\ req.query = "tag" :> PyStr("money")
    /\ Len(resp.docs) = 1
    /\ resp.docs[1]["tags"] = PyList(<<PyStr("money"), PyStr("love")>>)
    /\ Len(store["affirmation"]) = 2

\* The body's minutes is an integer in 1..240.
C4_MinutesInRange(body) ==
    /\ "minutes" \in DOMAIN body
    /\ body["minutes"].type = "int"
    /\ body["minutes"].val >= 1
    /\ body["minutes"].val <= 240

C5_Bounds ==
    ("GET /api/intentions" :> 1..500) @@ ("GET /api/affirmations" :> 1..1000) @@
    ("GET /api/sessions" :> 1..500)

\* C5: at each list endpoint a limit outside its bounds is answered 422
\* without the handler running or the store being read; a limit inside them is
\* never answered 422, is answered 200 whenever the store can be read, and the
\* response never holds more than limit records.
C5_LimitBounds ==
    (req.route \in ListRoutes /\ "limit" \in DOMAIN req.query) =>
        IF req.query["limit"].val \in C5_Bounds[req.route]
        THEN /\ resp.status # 422
             /\ req.up => resp.status = 200
             /\ Len(resp.docs) <= req.query["limit"].val
        ELSE resp.status = 422 /\ calls = <<>>

\* limit=1 cut a collection of two intentions down to one record.
C5_Witness ==
    /\ req.route = "GET /api/intentions"
    /\ req.query = "limit" :> PyInt(1)
    /\ resp.status = 200
    /\ Len(resp.docs) = 1
    /\ Len(store["intention"]) = 2

\* C6: with the store unconfigured GET /api/summary is answered 200 with all
\* three counts 0 and no recent sessions, and calls nothing of the store.
C6_SummaryUnconfigured ==
    (req.route = "GET /api/summary" /\ db = "None") =>
        /\ resp.status = 200
        /\ resp.counts = [intentions |-> 0, affirmations |-> 0, sessions |-> 0]
        /\ resp.docs = <<>>
        /\ calls = <<>>

C6_Witness ==
    /\ req.route = "GET /api/summary"
    /\ db = "None"
    /\ resp.status = 200

\* C7: with the store configured and reachable GET /api/summary is answered
\* 200 with, for each collection, the number of records persisted in it, and
\* min(10, number of sessions) recent sessions.
C7_SummaryCounts ==
    (req.route = "GET /api/summary" /\ db = "Database" /\ req.up) =>
        /\ resp.status = 200
        /\ resp.counts = [intentions |-> Len(store["intention"]),
                          affirmations |-> Len(store["affirmation"]),
                          sessions |-> Len(store["session"])]
        /\ Len(resp.docs) = IF Len(store["session"]) < 10 THEN Len(store["session"]) ELSE 10

NoTimestamps(d) == \A k \in DOMAIN d : d[k].type # "datetime"

\* C8: for every stored record with a native _id and no timestamp fields,
\* _serialize returns a mapping with id the string form of _id, without _id,
\* and every other field unchanged; serializing that output again gives the
\* same mapping; and the record passed in is left as it was.
C8_Serialize ==
    \A c \in Collections : \A n \in 1..Len(store[c]) :
        LET d == store[c][n]
            run == SerializeRun(d)
        IN  ("_id" \in DOMAIN d /\ NoTimestamps(d)) =>
                /\ DOMAIN run.ret = ((DOMAIN d) \ {"_id"}) \cup {"id"}
                /\ run.ret["id"] = ClientId(d)
                /\ \A k \in (DOMAIN d) \ {"_id"} : run.ret[k] = d[k]
                /\ _serialize(run.ret) = run.ret
                /\ run.arg = d

\* A stored record without timestamps has been serialized into a response.
C8_Witness ==
    /\ req.route = "GET /api/sessions"
    /\ resp.status = 200
    /\ Len(resp.docs) > 0
    /\ NoTimestamps(store["session"][1])
    /\ resp.docs[1]["id"] = ClientId(store["session"][1])

C9_Schema ==
    ("POST /api/intentions" :> Intention) @@ ("POST /api/affirmations" :> Affirmation) @@
    ("POST /api/sessions" :> Session)

\* C9: at each POST endpoint a payload failing validation is answered 422
\* with no adapter call; a valid payload whose write fails is answered 500
\* with the error message as detail; in both cases the store is unchanged;
\* only a successful write is answered 200 with the id.
C9_PostErrors ==
    [][req'.route \in PostRoutes =>
        IF Errors(C9_Schema[req'.route], req'.body) # {}
        THEN resp'.status = 422 /\ calls' = <<>> /\ store' = store
        ELSE IF db = "None" \/ ~req'.up
        THEN /\ resp'.status = 500
             /\ resp'.detail = (IF db = "None" THEN "Database not available"
                                               ELSE "store unreachable")
             /\ store' = store
        ELSE /\ resp'.status = 200
             /\ resp'.id # ""
             /\ store' # store]_vars

\* A valid affirmation met a store that refused the write.
C9_Witness ==
    /\ req.route = "POST /api/affirmations"
    /\ Errors(Affirmation, req.body) = {}
    /\ ~req.up
    /\ resp.status = 500
    /\ calls = <<"create_document">>

\* C10: every persisted affirmation has a text of 2..200 characters, a list
\* of strings as tags and an integer in 1..5 as intensity; an accepted payload
\* that omits tags is stored with the empty list, one that omits intensity
\* with 3.
C10_AffirmationShape ==
    /\ \A n \in 1..Len(store["affirmation"]) :
          LET d == store["affirmation"][n]
          IN  /\ d["text"].type = "str"
              /\ Len(d["text"].val) >= 2
              /\ Len(d["text"].val) <= 200
              /\ d["tags"].type = "list"
              /\ d["intensity"].type = "int"
              /\ d["intensity"].val \in 1..5
    /\ (req.route = "POST /api/affirmations" /\ resp.status = 200) =>
          LET d == store["affirmation"][Len(store["affirmation"])]
          IN  /\ "tags" \notin DOMAIN req.body => d["tags"] = PyList(<<>>)
              /\ "intensity" \notin DOMAIN req.body => d["intensity"] = PyInt(3)

====
